---- MODULE Spec2Model ----
(***************************************************************************)
(* Connectivity monitor (monitor.js): the poll cycle, the outage counter,  *)
(* the status classifier and the start/stop lifecycle, as a state machine. *)
(* One action per handler; an async function is cut at its awaits.         *)
(***************************************************************************)
EXTENDS Integers, Sequences, FiniteSets, TLC

\* ---------------------------------------------------------------- constants
DEFAULT_PING_INTERVAL_MS == 5000
PING_TIMEOUT_MS == 5000
FAILURES_FOR_OUTAGE == 3
DEGRADED_LATENCY_MS == 300
HISTORY_SIZE == 600
StatusWindow == 30

ENDPOINTS == <<"Cloudflare", "httpbin", "ipify">>

STATUS == [CONNECTED |-> "connected", DEGRADED |-> "degraded",
           DISCONNECTED |-> "disconnected", UNKNOWN |-> "unknown"]

\* JavaScript null: the rtt of an all-fail tick, the cleared intervalId, a
\* missing timing.  Real rtts are integers >= 0, real timer ids are > 0.
Null == -1

\* ------------------------------------------------------------------- bounds
MaxTicks == 5        \* ping() invocations in one behaviour
MaxInflight == 2     \* ping() invocations in flight at once
WarmTicks == 2       \* ping() invocations in a behaviour that starts with a long history
MaxStatusLen == 32   \* longest short history handed to computeStatus
LiveTicks == 2       \* ping() invocations in a behaviour checked for progress
BusTicks == 1        \* ping() invocations in a behaviour with outside subscribers
MaxSubs == 2         \* registrations outside subscribers hold at once
CopyTicks == 2       \* ping() invocations in a behaviour with callers holding arrays

RTTs == {0, 300}                 \* Math.round(performance.now() - start)
Timings == {Null, 1}             \* getResourceTiming(): null or a breakdown
Intervals == {1000, DEFAULT_PING_INTERVAL_MS}

\* What one fetch can come to: a response (of any HTTP status) after so many
\* tenths of a millisecond, a network error, or no answer within
\* PING_TIMEOUT_MS, when the timer aborts it.
ElapsedTenths == {e \in {10 * r + d : r \in RTTs, d \in {-5, 4}} : e >= 0}
FetchOutcomes ==
  {[kind |-> "response", elapsed |-> e, timing |-> t] : e \in ElapsedTenths, t \in Timings}
  \cup {[kind |-> k, elapsed |-> Null, timing |-> Null] : k \in {"networkError", "timeoutAbort"}}

VARIABLES
  intervalId,            \* module variable: the handle of the recurring timer, or Null
  consecutiveFailures,   \* module variable
  latencyHistory,        \* module variable: sequence of [time, rtt]
  callbacks,             \* module variable: event name -> sequence of listeners
  timers,                \* the platform's table of active setInterval timers
  ticks,                 \* the ping() invocations suspended at `await pingOne(ep)`,
                         \* in the order they started
  tickCount,             \* ping() invocations started so far
  now,                   \* the last value read from Date.now()
  log,                   \* what the last step emitted and to whom, in order
  last,                  \* the last step: which handler ran, on what state
  lastCall,              \* the last lifecycle call, its interval, the call before it
  streak,                \* history variable: all-fail ticks since the last success
  fired,                 \* history variable: outageDetected emissions in that streak
  csRtt, csHistory, csStatus,  \* one application of computeStatus
  held,                  \* holder -> the array it last got from the monitor, or NoArray
  diagState,             \* runDiagnostics(): "idle", "running", "resolved", "rejected"
  diagProbes,            \* the probeEndpoint promise of each of DIAG_ENDPOINTS
  diagEntries,           \* what getResourceTimingForUrl found for each endpoint
  diagResult             \* the DiagnosticsResult the promise resolved to

monVars == <<intervalId, consecutiveFailures, latencyHistory, callbacks, timers,
             ticks, tickCount, now, log, last, lastCall, streak, fired>>
csVars == <<csRtt, csHistory, csStatus>>

\* Who holds arrays of samples: the caller of getLatencyHistory() and a
\* subscriber to latencyUpdate
Holders == {"caller", "subscriber"}
NoArray == [ref |-> [alias |-> FALSE, val |-> <<>>], at |-> <<>>, touched |-> TRUE,
            held |-> FALSE]
diagVars == <<diagState, diagProbes, diagEntries, diagResult>>
auxVars == <<csVars, held, diagVars>>
vars == <<monVars, auxVars>>

\* ------------------------------------------------------------ pure functions

\* history.slice(-30)
SliceLast(history, n) ==
  IF Len(history) <= n THEN history
  ELSE SubSeq(history, Len(history) - n + 1, Len(history))

\* computeStatus with `rtt > DEGRADED_LATENCY_MS` for `>=`
computeStatusStrict(rtt, history) ==
  IF rtt = Null THEN STATUS.DISCONNECTED
  ELSE LET recent == SliceLast(history, StatusWindow) IN
       IF 10 * Len(recent) < 7 * StatusWindow THEN STATUS.DEGRADED
       ELSE IF rtt > DEGRADED_LATENCY_MS THEN STATUS.DEGRADED
       ELSE STATUS.CONNECTED

\* computeStatus with `!rtt` for `rtt == null`: a 0 ms measurement reads as absent
computeStatusFalsy(rtt, history) ==
  IF rtt = Null \/ rtt = 0 THEN STATUS.DISCONNECTED
  ELSE LET recent == SliceLast(history, StatusWindow) IN
       IF 10 * Len(recent) < 7 * StatusWindow THEN STATUS.DEGRADED
       ELSE IF rtt >= DEGRADED_LATENCY_MS THEN STATUS.DEGRADED
       ELSE STATUS.CONNECTED

\* recent.length / 30 < 0.7, in tenths: 10 * length < 7 * 30
computeStatus(rtt, history) ==
  IF rtt = Null THEN STATUS.DISCONNECTED
  ELSE LET recent == SliceLast(history, StatusWindow) IN
       IF 10 * Len(recent) < 7 * StatusWindow THEN STATUS.DEGRADED
       ELSE IF rtt >= DEGRADED_LATENCY_MS THEN STATUS.DEGRADED
       ELSE STATUS.CONNECTED

\* PushSample with pop() for shift(): at capacity the new sample is dropped
PushSamplePop(history, sample) ==
  LET pushed == Append(history, sample) IN
  IF Len(pushed) > HISTORY_SIZE THEN history ELSE pushed

\* latencyHistory.push(sample); if (length > HISTORY_SIZE) latencyHistory.shift()
PushSample(history, sample) ==
  LET pushed == Append(history, sample) IN
  IF Len(pushed) > HISTORY_SIZE THEN Tail(pushed) ELSE pushed

\* Math.round of a non-negative time given in tenths of a millisecond
Round(tenths) == (tenths + 5) \div 10

\* pingOne without the try/catch: a rejected fetch propagates to the caller
pingOneNoCatch(raw) ==
  IF raw.kind = "response"
  THEN [ok |-> TRUE, rtt |-> Round(raw.elapsed), timing |-> raw.timing, threw |-> FALSE]
  ELSE [ok |-> FALSE, rtt |-> Null, timing |-> Null, threw |-> TRUE]

\* async function pingOne(endpoint): { ok: true, rtt, timing } when the fetch
\* resolves, { ok: false } from the catch when it rejects or is aborted
pingOne(raw) ==
  IF raw.kind = "response"
  THEN [ok |-> TRUE, rtt |-> Round(raw.elapsed), timing |-> raw.timing, threw |-> FALSE]
  ELSE [ok |-> FALSE, rtt |-> Null, timing |-> Null, threw |-> FALSE]

\* OutageDue with `===` for `>=`: fires on the crossing tick only
OutageDueCrossing(failures) == failures = FAILURES_FOR_OUTAGE

\* OutageDue with `>` for `>=`
OutageDueStrict(failures) == failures > FAILURES_FOR_OUTAGE

\* if (consecutiveFailures >= FAILURES_FOR_OUTAGE)
OutageDue(failures) == failures >= FAILURES_FOR_OUTAGE

\* setInterval returns an id > 0 that no active timer has (the smallest one)
FreshId(table) ==
  CHOOSE n \in 1..(Cardinality(table) + 1) :
    /\ \A t \in table : t.id # n
    /\ \A m \in 1..(n - 1) : \E t \in table : t.id = m

\* setInterval(ping, ms) on the platform's timer table
setInterval(table, ms) == table \cup {[id |-> FreshId(table), ms |-> ms]}

\* clearInterval left out: the old timer keeps running
clearIntervalMissing(table, id) == table

\* clearInterval(id) on the platform's timer table
clearInterval(table, id) == {t \in table : t.id # id}

\* ---------------------------------------------------------------- event bus
Emitted(event, data) == [kind |-> "emit", fn |-> "", event |-> event, data |-> data]
Called(fn, event, data) == [kind |-> "call", fn |-> fn, event |-> event, data |-> data]

\* a platform call the handler makes: clearInterval, setInterval, fetch
Effect(kind, data) == [kind |-> kind, fn |-> "", event |-> "", data |-> data]

RECURSIVE emit(_, _, _)
RECURSIVE forEach(_, _, _, _)

\* function onLatencyUpdate(data): derives the statusChange event
onLatencyUpdate(cbs, data) ==
  emit(cbs, "statusChange",
       [status |-> computeStatus(data.rtt, data.history),
        rtt |-> data.rtt, history |-> data.history])

\* (callbacks[event] || []).forEach((fn) => fn(data))
forEach(cbs, fns, event, data) ==
  IF fns = <<>> THEN <<>>
  ELSE <<Called(Head(fns), event, data)>>
       \o (IF Head(fns) = "onLatencyUpdate" THEN onLatencyUpdate(cbs, data) ELSE <<>>)
       \o forEach(cbs, Tail(fns), event, data)

emit(cbs, event, data) ==
  <<Emitted(event, data)>> \o forEach(cbs, cbs[event], event, data)

\* Includes that never finds the listener: the `includes` guard left out
IncludesNever(fns, fn) == FALSE

Includes(fns, fn) == \E i \in 1..Len(fns) : fns[i] = fn

\* RemoveFirst that removes nothing: the listener stays registered
RemoveFirstNoop(fns, fn) == fns

\* RemoveFirst as a filter: every registration of fn goes
RemoveFirstAll(fns, fn) == SelectSeq(fns, LAMBDA g : g # fn)

\* indexOf + splice(idx, 1): removes the first occurrence
RemoveFirst(fns, fn) ==
  IF ~Includes(fns, fn) THEN fns
  ELSE LET idx == CHOOSE i \in 1..Len(fns) :
                    fns[i] = fn /\ \A j \in 1..(i - 1) : fns[j] # fn
       IN SubSeq(fns, 1, idx - 1) \o SubSeq(fns, idx + 1, Len(fns))

\* -------------------------------------------------------------------- state
NoStep == [op |-> "none", ok |-> FALSE, rtt |-> Null, probed |-> <<>>,
           failures0 |-> 0, history0 |-> <<>>, inflight0 |-> 0,
           event |-> "", fn |-> "",
           callbacks0 |-> [statusChange |-> <<>>, latencyUpdate |-> <<>>,
                           outageDetected |-> <<>>]]

InitMonitor(history, clock) ==
  /\ intervalId = Null
  /\ consecutiveFailures = 0
  /\ latencyHistory = history
  /\ callbacks = [statusChange |-> <<>>, latencyUpdate |-> <<>>, outageDetected |-> <<>>]
  /\ timers = {}
  /\ ticks = <<>>
  /\ tickCount = 0
  /\ now = clock
  /\ log = <<>>
  /\ last = NoStep
  /\ lastCall = [op |-> "none", ms |-> Null, prev |-> "none"]
  /\ streak = 0
  /\ fired = 0

\* ------------------------------------------------------------------ diagnostics
DNS_SLOW_MS == 100
CONNECT_SLOW_MS == 200
DIAG_ENDPOINTS ==
  << [name |-> "Cloudflare", beacon |-> FALSE],
     [name |-> "httpbin", beacon |-> FALSE],
     [name |-> "ipify", beacon |-> FALSE],
     [name |-> "Google (beacon)", beacon |-> TRUE] >>

\* The suggestions, by their opening words
TIP_MODEM == "Check modem and router"
TIP_DEVICES == "Confirm other devices on the same network"
TIP_ISP == "Contact your ISP if the outage continues."
TIP_SOME == "Some services are reachable and others aren't"
TIP_TRY == "Try a different website or app"
TIP_DNS == "DNS is slow"
TIP_CONNECT == "Connection to the server is slow"

\* What a probe's request can come to (kept with the probe as its `cause`).  fetch: a response, a network error,
\* the abort of the 5000 ms timer, or fetch itself throwing.  Image: onload
\* or onerror.
DiagOutcomes(ep) ==
  IF ep.beacon
  THEN {[kind |-> "load", elapsed |-> 204], [kind |-> "error", elapsed |-> Null]}
  ELSE {[kind |-> "response", elapsed |-> 204]}
       \cup {[kind |-> k, elapsed |-> Null] : k \in {"networkError", "timeoutAbort", "throws"}}

\* getResourceTimingForUrl(url): null, or the phases of the newest matching
\* entry (of these only dns and connect are read by runDiagnostics)
NoTiming == [dns |-> Null, connect |-> Null]
ResourceTimings ==
  {NoTiming} \cup {[dns |-> d, connect |-> c] :
                 d \in {DNS_SLOW_MS - 1, DNS_SLOW_MS, DNS_SLOW_MS + 1},
                 c \in {CONNECT_SLOW_MS - 1, CONNECT_SLOW_MS}}
BeaconTimings == {NoTiming, [dns |-> DNS_SLOW_MS, connect |-> CONNECT_SLOW_MS]}

Pending == [state |-> "pending", ok |-> FALSE, rtt |-> Null, name |-> "", cause |-> ""]
NoProbe == [state |-> "none", ok |-> FALSE, rtt |-> Null, name |-> "", cause |-> ""]
NoResult == [dnsOk |-> FALSE, endpointsReached |-> <<>>, latencyBreakdown |-> NoTiming,
             suggestions |-> <<>>]

\* function probeBeacon(url): resolves from onload or onerror
probeBeacon(raw) ==
  IF raw.kind = "load"
  THEN [state |-> "fulfilled", ok |-> TRUE, rtt |-> Round(raw.elapsed)]
  ELSE [state |-> "fulfilled", ok |-> FALSE, rtt |-> Null]

\* probeEndpoint without the try/catch around fetch
probeEndpointNoCatch(ep, raw) ==
  IF ep.beacon
  THEN probeBeacon(raw) @@ [name |-> ep.name, cause |-> raw.kind]
  ELSE IF raw.kind = "response"
       THEN [state |-> "fulfilled", ok |-> TRUE, rtt |-> Round(raw.elapsed), name |-> ep.name,
             cause |-> raw.kind]
       ELSE [state |-> "rejected", ok |-> FALSE, rtt |-> Null, name |-> ep.name,
             cause |-> raw.kind]

\* async function probeEndpoint(ep)
probeEndpoint(ep, raw) ==
  IF ep.beacon
  THEN probeBeacon(raw) @@ [name |-> ep.name, cause |-> raw.kind]
  ELSE IF raw.kind = "response"
       THEN [state |-> "fulfilled", ok |-> TRUE, rtt |-> Round(raw.elapsed), name |-> ep.name,
             cause |-> raw.kind]
       ELSE [state |-> "fulfilled", ok |-> FALSE, rtt |-> Null, name |-> ep.name,
             cause |-> raw.kind]

\* results.filter((r) => r.ok).map((r) => r.name)
RECURSIVE ReachedNames(_)
ReachedNames(results) ==
  IF results = <<>> THEN <<>>
  ELSE IF Head(results).ok THEN <<Head(results).name>> \o ReachedNames(Tail(results))
       ELSE ReachedNames(Tail(results))

\* the loop over DIAG_ENDPOINTS that takes the first timing of a non-beacon one
RECURSIVE FirstBreakdownFrom(_, _)
FirstBreakdownFrom(i, entries) ==
  IF i > Len(DIAG_ENDPOINTS) THEN NoTiming
  ELSE IF DIAG_ENDPOINTS[i].beacon THEN FirstBreakdownFrom(i + 1, entries)
       ELSE IF entries[i] # NoTiming THEN entries[i]
            ELSE FirstBreakdownFrom(i + 1, entries)

\* ReachabilityTips with `<=` for `<` in someFailed
ReachabilityTipsAllCount(reached) ==
  IF reached = 0 THEN <<TIP_MODEM, TIP_DEVICES, TIP_ISP>>
  ELSE IF reached > 0 /\ reached <= Len(DIAG_ENDPOINTS) THEN <<TIP_SOME, TIP_TRY>>
       ELSE <<>>

\* if (allFailed) ... else if (someFailed) ...
ReachabilityTips(reached) ==
  IF reached = 0 THEN <<TIP_MODEM, TIP_DEVICES, TIP_ISP>>
  ELSE IF reached > 0 /\ reached < Len(DIAG_ENDPOINTS) THEN <<TIP_SOME, TIP_TRY>>
       ELSE <<>>

\* TimingTips with `>` for `>=`
TimingTipsStrict(breakdown) ==
  IF breakdown = NoTiming THEN <<>>
  ELSE (IF breakdown.dns > DNS_SLOW_MS THEN <<TIP_DNS>> ELSE <<>>)
       \o (IF breakdown.connect > CONNECT_SLOW_MS THEN <<TIP_CONNECT>> ELSE <<>>)

\* if (latencyBreakdown) { if (dns >= DNS_SLOW_MS) ...; if (connect >= CONNECT_SLOW_MS) ... }
TimingTips(breakdown) ==
  IF breakdown = NoTiming THEN <<>>
  ELSE (IF breakdown.dns >= DNS_SLOW_MS THEN <<TIP_DNS>> ELSE <<>>)
       \o (IF breakdown.connect >= CONNECT_SLOW_MS THEN <<TIP_CONNECT>> ELSE <<>>)

\* [...new Set(suggestions)]: the first occurrence of each string, in order
RECURSIVE Dedupe(_, _)
Dedupe(seen, rest) ==
  IF rest = <<>> THEN seen
  ELSE IF \E k \in 1..Len(seen) : seen[k] = Head(rest) THEN Dedupe(seen, Tail(rest))
       ELSE Dedupe(Append(seen, Head(rest)), Tail(rest))

\* runDiagnostics() after `await Promise.all(...)`
DiagnosticsResult(results, entries) ==
  LET endpointsReached == ReachedNames(results)
      latencyBreakdown == FirstBreakdownFrom(1, entries)
  IN [dnsOk |-> Len(endpointsReached) > 0,
      endpointsReached |-> endpointsReached,
      latencyBreakdown |-> latencyBreakdown,
      suggestions |-> Dedupe(<<>>, ReachabilityTips(Len(endpointsReached))
                                     \o TimingTips(latencyBreakdown))]

InitDiagnostics ==
  /\ diagState = "idle"
  /\ diagProbes = [i \in 1..Len(DIAG_ENDPOINTS) |-> NoProbe]
  /\ diagEntries = [i \in 1..Len(DIAG_ENDPOINTS) |-> NoTiming]
  /\ diagResult = NoResult

\* runDiagnostics() up to its await: DIAG_ENDPOINTS.map(probeEndpoint) has
\* issued the four requests
runDiagnostics ==
  /\ diagState # "running"
  /\ diagState' = "running"
  /\ diagProbes' = [i \in 1..Len(DIAG_ENDPOINTS) |-> Pending]
  /\ diagEntries' = [i \in 1..Len(DIAG_ENDPOINTS) |-> NoTiming]
  /\ diagResult' = NoResult
  /\ UNCHANGED <<monVars, csVars, held>>

\* the request of probe i comes to something and its promise settles
ProbeSettles(i) ==
  /\ diagProbes[i].state = "pending"
  /\ \E raw \in DiagOutcomes(DIAG_ENDPOINTS[i]) :
       diagProbes' = [diagProbes EXCEPT ![i] = probeEndpoint(DIAG_ENDPOINTS[i], raw)]
  /\ UNCHANGED <<diagState, diagEntries, diagResult>>
  /\ UNCHANGED <<monVars, csVars, held>>

\* Promise.all settles, and runDiagnostics() runs from its await to its return
runDiagnosticsResumes ==
  /\ diagState = "running"
  /\ \/ \A i \in 1..Len(DIAG_ENDPOINTS) : diagProbes[i].state = "fulfilled"
     \/ \E i \in 1..Len(DIAG_ENDPOINTS) : diagProbes[i].state = "rejected"
  /\ IF \E i \in 1..Len(DIAG_ENDPOINTS) : diagProbes[i].state = "rejected"
     THEN /\ diagState' = "rejected"
          /\ UNCHANGED <<diagEntries, diagResult>>
     ELSE \E e1 \in ResourceTimings, e2 \in ResourceTimings, e3 \in ResourceTimings,
             e4 \in BeaconTimings :
            /\ diagEntries' = <<e1, e2, e3, e4>>
            /\ diagResult' = DiagnosticsResult(diagProbes, diagEntries')
            /\ diagState' = "resolved"
  /\ UNCHANGED diagProbes
  /\ UNCHANGED <<monVars, csVars, held>>

\* ------------------------------------------------------------------------ state
InitStatus ==
  /\ csRtt = Null
  /\ csHistory = <<>>
  /\ csStatus = "none"
  /\ held = [h \in Holders |-> NoArray]
  /\ InitDiagnostics

Init == InitMonitor(<<>>, 0) /\ InitStatus

\* ping() up to its first await: pingOne(ENDPOINTS[1]) has issued its fetch
NewTick == [ep |-> 1, probed |-> <<>>]

RemoveAt(s, i) == SubSeq(s, 1, i - 1) \o SubSeq(s, i + 1, Len(s))

CanPing == tickCount < MaxTicks /\ Len(ticks) < MaxInflight

\* Date.now() never runs backwards and has millisecond resolution: two ticks
\* that complete back to back may read the same value, otherwise time has passed
DateNow == IF last.op = "success" THEN {now, now + 1} ELSE {now + 1}

\* NextProbe that probes the failed endpoint again before moving on
NextProbeRetry(t) ==
  [ep |-> IF Len(t.probed) < t.ep THEN t.ep ELSE t.ep + 1,
   probed |-> Append(t.probed, [ep |-> t.ep, ok |-> FALSE])]

\* for (const ep of ENDPOINTS): after a failed probe the loop moves to the next
\* endpoint and pingOne issues its fetch
NextProbe(t) ==
  [ep |-> t.ep + 1, probed |-> Append(t.probed, [ep |-> t.ep, ok |-> FALSE])]

Step(op, t, ok, rtt) ==
  [op |-> op, ok |-> ok, rtt |-> rtt,
   probed |-> IF op \in {"success", "next", "allFailed"}
              THEN Append(t.probed, [ep |-> t.ep, ok |-> ok]) ELSE <<>>,
   failures0 |-> consecutiveFailures, history0 |-> latencyHistory,
   inflight0 |-> Len(ticks), event |-> "", fn |-> "", callbacks0 |-> callbacks]

\* ------------------------------------------------------------------ actions

\* startMonitoringSteps with ping() called before the "unknown" status is emitted
startMonitoringStepsProbeFirst(intervalMs) ==
  (IF intervalId # Null THEN <<Effect("clearInterval", [id |-> intervalId])>> ELSE <<>>)
  \o <<Effect("fetch", [ep |-> NewTick.ep])>>
  \o emit(callbacks, "statusChange",
          [status |-> STATUS.UNKNOWN, rtt |-> Null, history |-> <<>>])
  \o <<Effect("setInterval", [ms |-> intervalMs])>>

\* the statements of startMonitoring in program order: clearInterval if a timer
\* is set, emit('statusChange', unknown), ping() up to its first fetch, setInterval
startMonitoringSteps(intervalMs) ==
  (IF intervalId # Null THEN <<Effect("clearInterval", [id |-> intervalId])>> ELSE <<>>)
  \o emit(callbacks, "statusChange",
          [status |-> STATUS.UNKNOWN, rtt |-> Null, history |-> <<>>])
  \o <<Effect("fetch", [ep |-> NewTick.ep])>>
  \o <<Effect("setInterval", [ms |-> intervalMs])>>

\* export function startMonitoring(intervalMs)
startMonitoring(intervalMs) ==
  /\ CanPing
  /\ LET cleared == IF intervalId # Null THEN clearInterval(timers, intervalId) ELSE timers
         cbs == IF ~Includes(callbacks.latencyUpdate, "onLatencyUpdate")
                THEN [callbacks EXCEPT !.latencyUpdate = Append(@, "onLatencyUpdate")]
                ELSE callbacks
     IN /\ log' = startMonitoringSteps(intervalMs)
        /\ callbacks' = cbs
        /\ ticks' = Append(ticks, NewTick)
        /\ tickCount' = tickCount + 1
        /\ timers' = setInterval(cleared, intervalMs)
        /\ intervalId' = FreshId(cleared)
  /\ last' = Step("startMonitoring", NewTick, FALSE, Null)
  /\ lastCall' = [op |-> "start", ms |-> intervalMs, prev |-> lastCall.op]
  /\ UNCHANGED <<consecutiveFailures, latencyHistory, now, streak, fired>>
  /\ UNCHANGED auxVars

\* stopMonitoring that also empties the history (latencyHistory.length = 0)
stopMonitoringClears ==
  /\ timers' = IF intervalId # Null THEN clearInterval(timers, intervalId) ELSE timers
  /\ intervalId' = Null
  /\ callbacks' = [callbacks EXCEPT !.latencyUpdate = RemoveFirst(@, "onLatencyUpdate")]
  /\ log' = IF intervalId # Null THEN <<Effect("clearInterval", [id |-> intervalId])>>
            ELSE <<>>
  /\ last' = Step("stopMonitoring", NewTick, FALSE, Null)
  /\ lastCall' = [op |-> "stop", ms |-> Null, prev |-> lastCall.op]
  /\ latencyHistory' = <<>>
  /\ UNCHANGED <<consecutiveFailures, ticks, tickCount, now, streak, fired>>
  /\ UNCHANGED auxVars

\* export function stopMonitoring()
stopMonitoring ==
  /\ timers' = IF intervalId # Null THEN clearInterval(timers, intervalId) ELSE timers
  /\ intervalId' = Null
  /\ callbacks' = [callbacks EXCEPT !.latencyUpdate = RemoveFirst(@, "onLatencyUpdate")]
  /\ log' = IF intervalId # Null THEN <<Effect("clearInterval", [id |-> intervalId])>>
            ELSE <<>>
  /\ last' = Step("stopMonitoring", NewTick, FALSE, Null)
  /\ lastCall' = [op |-> "stop", ms |-> Null, prev |-> lastCall.op]
  /\ UNCHANGED <<consecutiveFailures, latencyHistory, ticks, tickCount, now,
                 streak, fired>>
  /\ UNCHANGED auxVars

\* setInterval(ping, intervalMs): the platform fires an active timer
TimerFires(t) ==
  /\ t \in timers
  /\ CanPing
  /\ ticks' = Append(ticks, NewTick)
  /\ tickCount' = tickCount + 1
  /\ log' = <<Effect("fetch", [ep |-> NewTick.ep])>>
  /\ last' = Step("timer", NewTick, FALSE, Null)
  /\ UNCHANGED <<lastCall, intervalId, consecutiveFailures, latencyHistory, callbacks, timers,
                 now, streak, fired>>
  /\ UNCHANGED auxVars

\* PingSuccess without `consecutiveFailures = 0`
PingSuccessNoReset(i, rtt, timing, clock) ==
  /\ i \in 1..Len(ticks)
  /\ clock \in DateNow
  /\ now' = clock
  /\ latencyHistory' = PushSample(latencyHistory, [time |-> clock, rtt |-> rtt])
  /\ log' = emit(callbacks, "latencyUpdate",
                 [rtt |-> rtt, history |-> latencyHistory', timing |-> timing])
  /\ ticks' = RemoveAt(ticks, i)
  /\ last' = Step("success", ticks[i], TRUE, rtt)
  /\ streak' = 0
  /\ fired' = 0
  /\ UNCHANGED <<lastCall, intervalId, callbacks, timers, tickCount, consecutiveFailures>>
  /\ UNCHANGED auxVars

\* ping(): `await pingOne(ep)` resumes with { ok: true, rtt, timing }
PingSuccess(i, rtt, timing, clock) ==
  /\ i \in 1..Len(ticks)
  /\ clock \in DateNow
  /\ now' = clock
  /\ consecutiveFailures' = 0
  /\ latencyHistory' = PushSample(latencyHistory, [time |-> clock, rtt |-> rtt])
  /\ log' = emit(callbacks, "latencyUpdate",
                 [rtt |-> rtt, history |-> latencyHistory', timing |-> timing])
  /\ ticks' = RemoveAt(ticks, i)
  /\ last' = Step("success", ticks[i], TRUE, rtt)
  /\ streak' = 0
  /\ fired' = 0
  /\ UNCHANGED <<lastCall, intervalId, callbacks, timers, tickCount>>
  /\ UNCHANGED auxVars

\* ping(): `await pingOne(ep)` resumes with { ok: false } and the loop goes on
\* to the next endpoint, whose fetch is issued
PingNextEndpoint(i) ==
  /\ i \in 1..Len(ticks)
  /\ ticks[i].ep < Len(ENDPOINTS)
  /\ ticks' = [ticks EXCEPT ![i] = NextProbe(ticks[i])]
  /\ log' = <<Effect("fetch", [ep |-> NextProbe(ticks[i]).ep])>>
  /\ last' = Step("next", ticks[i], FALSE, Null)
  /\ UNCHANGED <<lastCall, intervalId, consecutiveFailures, latencyHistory, callbacks, timers,
                 tickCount, now, streak, fired>>
  /\ UNCHANGED auxVars

\* PingAllFailed with the two emits swapped: latencyUpdate before outageDetected
PingAllFailedLatencyFirst(i) ==
  /\ i \in 1..Len(ticks)
  /\ ticks[i].ep = Len(ENDPOINTS)
  /\ consecutiveFailures' = consecutiveFailures + 1
  /\ log' = emit(callbacks, "latencyUpdate",
                 [rtt |-> Null, history |-> latencyHistory, timing |-> Null])
            \o (IF OutageDue(consecutiveFailures')
                THEN emit(callbacks, "outageDetected",
                          [consecutiveFailures |-> consecutiveFailures'])
                ELSE <<>>)
  /\ ticks' = RemoveAt(ticks, i)
  /\ last' = Step("allFailed", ticks[i], FALSE, Null)
  /\ streak' = streak + 1
  /\ fired' = fired + (IF OutageDue(consecutiveFailures') THEN 1 ELSE 0)
  /\ UNCHANGED <<lastCall, intervalId, latencyHistory, callbacks, timers, tickCount, now>>
  /\ UNCHANGED auxVars

\* ping(): the last endpoint's pingOne resumes with { ok: false }; the loop ends
PingAllFailed(i) ==
  /\ i \in 1..Len(ticks)
  /\ ticks[i].ep = Len(ENDPOINTS)
  /\ consecutiveFailures' = consecutiveFailures + 1
  /\ log' = (IF OutageDue(consecutiveFailures')
             THEN emit(callbacks, "outageDetected",
                       [consecutiveFailures |-> consecutiveFailures'])
             ELSE <<>>)
            \o emit(callbacks, "latencyUpdate",
                    [rtt |-> Null, history |-> latencyHistory, timing |-> Null])
  /\ ticks' = RemoveAt(ticks, i)
  /\ last' = Step("allFailed", ticks[i], FALSE, Null)
  /\ streak' = streak + 1
  /\ fired' = fired + (IF OutageDue(consecutiveFailures') THEN 1 ELSE 0)
  /\ UNCHANGED <<lastCall, intervalId, latencyHistory, callbacks, timers, tickCount, now>>
  /\ UNCHANGED auxVars

\* export function on(event, fn)
on(event, fn) ==
  /\ callbacks' = IF event \in DOMAIN callbacks
                  THEN [callbacks EXCEPT ![event] = Append(@, fn)]
                  ELSE callbacks
  /\ log' = <<>>
  /\ last' = [Step("on", NewTick, FALSE, Null) EXCEPT !.event = event, !.fn = fn]
  /\ UNCHANGED <<intervalId, consecutiveFailures, latencyHistory, timers, ticks,
                 tickCount, now, lastCall, streak, fired>>
  /\ UNCHANGED auxVars

\* export function off(event, fn)
off(event, fn) ==
  /\ callbacks' = IF event \in DOMAIN callbacks
                  THEN [callbacks EXCEPT ![event] = RemoveFirst(@, fn)]
                  ELSE callbacks
  /\ log' = <<>>
  /\ last' = [Step("off", NewTick, FALSE, Null) EXCEPT !.event = event, !.fn = fn]
  /\ UNCHANGED <<intervalId, consecutiveFailures, latencyHistory, timers, ticks,
                 tickCount, now, lastCall, streak, fired>>
  /\ UNCHANGED auxVars

\* `[...latencyHistory]`: a new array with the elements of the internal one.
\* An array a caller holds is a reference: to an array of its own, or to the
\* monitor's internal array.
SpreadAlias(arr) == [alias |-> TRUE, val |-> arr]
Spread(arr) == [alias |-> FALSE, val |-> arr]
Deref(ref) == IF ref.alias THEN latencyHistory ELSE ref.val

\* export function getLatencyHistory()
getLatencyHistory ==
  /\ held' = [held EXCEPT !["caller"] = [ref |-> Spread(latencyHistory),
                 at |-> latencyHistory, touched |-> FALSE, held |-> TRUE]]
  /\ log' = <<>>
  /\ last' = Step("get", NewTick, FALSE, Null)
  /\ UNCHANGED <<intervalId, consecutiveFailures, latencyHistory, callbacks, timers,
                 ticks, tickCount, now, lastCall, streak, fired>>
  /\ UNCHANGED <<csVars, diagVars>>

\* A latencyUpdate subscriber keeps the `history` of the event delivered to it
\* in the last step: `history: [...latencyHistory]` in ping()
SubscriberKeeps ==
  /\ \E k \in 1..Len(log) :
       /\ log[k] = Emitted("latencyUpdate", log[k].data)
       /\ held' = [held EXCEPT !["subscriber"] = [ref |-> Spread(log[k].data.history),
                      at |-> log[k].data.history, touched |-> FALSE, held |-> TRUE]]
  /\ UNCHANGED monVars
  /\ UNCHANGED <<csVars, diagVars>>

\* What a holder does to its array: push, pop, or assignment to an element
Junk == [time |-> Null, rtt |-> Null]
Mutations == {"push", "pop", "replace"}
Mutate(arr, m) ==
  CASE m = "push" -> Append(arr, Junk)
    [] m = "pop" -> IF arr = <<>> THEN arr ELSE SubSeq(arr, 1, Len(arr) - 1)
    [] m = "replace" -> IF arr = <<>> THEN arr ELSE [arr EXCEPT ![1] = Junk]

HolderMutates(h, m) ==
  /\ held[h].held
  /\ ~held[h].touched
  /\ IF held[h].ref.alias
     THEN /\ latencyHistory' = Mutate(latencyHistory, m)
          /\ held' = [held EXCEPT ![h].touched = TRUE]
     ELSE /\ held' = [held EXCEPT ![h].ref.val = Mutate(@, m), ![h].touched = TRUE]
          /\ UNCHANGED latencyHistory
  /\ log' = <<>>
  /\ last' = Step("mutate", NewTick, FALSE, Null)
  /\ UNCHANGED <<intervalId, consecutiveFailures, callbacks, timers,
                 ticks, tickCount, now, lastCall, streak, fired>>
  /\ UNCHANGED <<csVars, diagVars>>

\* `const result = await pingOne(ep)`: the pending fetch of tick i comes to one
\* of its outcomes and ping() resumes with what pingOne returns for it
ProbeSucceeds(i) ==
  \E raw \in FetchOutcomes, clock \in DateNow :
    /\ pingOne(raw).ok
    /\ PingSuccess(i, pingOne(raw).rtt, pingOne(raw).timing, clock)

ProbeFails(i) ==
  \E raw \in FetchOutcomes : ~pingOne(raw).ok /\ ~pingOne(raw).threw

Next ==
  \/ \E ms \in Intervals : startMonitoring(ms)
  \/ stopMonitoring
  \/ \E t \in timers : TimerFires(t)
  \/ \E i \in 1..Len(ticks) : ProbeSucceeds(i)
  \/ \E i \in 1..Len(ticks) : ProbeFails(i) /\ PingNextEndpoint(i)
  \/ \E i \in 1..Len(ticks) : ProbeFails(i) /\ PingAllFailed(i)

Spec == Init /\ [][Next]_vars

\* ------------------------------------------------- a session with a long history
\* The state after n successful ticks one millisecond apart, monitoring stopped
\* and every tick drained.
WarmLens == {20, 30, HISTORY_SIZE - 1, HISTORY_SIZE}
WarmHistory(n) == [i \in 1..n |-> [time |-> i, rtt |-> 250]]

InitWarm == \E n \in WarmLens : InitMonitor(WarmHistory(n), n) /\ InitStatus

WarmCanPing == tickCount < WarmTicks

NextWarm ==
  \/ WarmCanPing /\ \E ms \in Intervals : startMonitoring(ms)
  \/ stopMonitoring
  \/ WarmCanPing /\ \E t \in timers : TimerFires(t)
  \/ \E i \in 1..Len(ticks) : ProbeSucceeds(i)
  \/ \E i \in 1..Len(ticks) : ProbeFails(i) /\ PingNextEndpoint(i)
  \/ \E i \in 1..Len(ticks) : ProbeFails(i) /\ PingAllFailed(i)

SpecWarm == InitWarm /\ [][NextWarm]_vars

\* ------------------------------------------------------------------ progress
\* Every fetch settles: a response, a network error, or the abort that the
\* PING_TIMEOUT_MS timer fires.  So the tick at each position is resumed.
LiveCanPing == tickCount < LiveTicks

NextLive ==
  \/ LiveCanPing /\ \E ms \in Intervals : startMonitoring(ms)
  \/ stopMonitoring
  \/ LiveCanPing /\ \E t \in timers : TimerFires(t)
  \/ \E i \in 1..Len(ticks) : ProbeSucceeds(i)
  \/ \E i \in 1..Len(ticks) : ProbeFails(i) /\ PingNextEndpoint(i)
  \/ \E i \in 1..Len(ticks) : ProbeFails(i) /\ PingAllFailed(i)

Settles(i) ==
  \/ ProbeSucceeds(i)
  \/ ProbeFails(i) /\ PingNextEndpoint(i)
  \/ ProbeFails(i) /\ PingAllFailed(i)

SpecLive ==
  /\ Init
  /\ [][NextLive]_vars
  /\ \A i \in 1..MaxInflight : WF_vars(Settles(i))

\* ---------------------------------------------------------- outside subscribers
\* The callers of on/off: two callbacks, the three event kinds and a name the
\* bus does not know.  The behaviour starts in a running session that has seen
\* two all-fail ticks, so that one more tick reaches every kind of event.
Fns == {"f", "g"}
EventNames == {"statusChange", "latencyUpdate", "outageDetected"}
OnOffNames == EventNames \cup {"bogus"}

Registrations ==
  Cardinality({<<e, k>> \in EventNames \X (1..(MaxSubs + 1)) :
                 k <= Len(callbacks[e]) /\ callbacks[e][k] \in Fns})

InitBus ==
  /\ intervalId = 1
  /\ timers = {[id |-> 1, ms |-> 1000]}
  /\ consecutiveFailures = 2
  /\ latencyHistory = <<>>
  /\ callbacks = [statusChange |-> <<>>, latencyUpdate |-> <<"onLatencyUpdate">>,
                  outageDetected |-> <<>>]
  /\ ticks = <<>>
  /\ tickCount = 0
  /\ now = 0
  /\ log = <<>>
  /\ last = NoStep
  /\ lastCall = [op |-> "start", ms |-> 1000, prev |-> "none"]
  /\ streak = 2
  /\ fired = 0
  /\ InitStatus

BusCanPing == tickCount < BusTicks

NextBus ==
  \/ \E e \in OnOffNames, fn \in Fns : Registrations < MaxSubs /\ on(e, fn)
  \/ \E e \in OnOffNames, fn \in Fns : off(e, fn)
  \/ BusCanPing /\ startMonitoring(DEFAULT_PING_INTERVAL_MS)
  \/ stopMonitoring
  \/ BusCanPing /\ \E t \in timers : TimerFires(t)
  \/ \E i \in 1..Len(ticks) : ProbeSucceeds(i)
  \/ \E i \in 1..Len(ticks) : ProbeFails(i) /\ PingNextEndpoint(i)
  \/ \E i \in 1..Len(ticks) : ProbeFails(i) /\ PingAllFailed(i)

SpecBus == InitBus /\ [][NextBus]_vars

\* ------------------------------------------------------------ diagnostics runs
NextDiag ==
  \/ runDiagnostics
  \/ \E i \in 1..Len(DIAG_ENDPOINTS) : ProbeSettles(i)
  \/ runDiagnosticsResumes

\* Every issued request comes to something (fetch by the abort timer at the
\* latest, the image by the browser's onload or onerror), and a settled
\* Promise.all resumes its awaiter.
SpecDiag ==
  /\ Init
  /\ [][NextDiag]_vars
  /\ \A i \in 1..Len(DIAG_ENDPOINTS) : WF_vars(ProbeSettles(i))
  /\ WF_vars(runDiagnosticsResumes)

\* -------------------------------------------------------------- holders of arrays
\* The ticks of these behaviours do not overlap
CopyCanPing == tickCount < CopyTicks /\ ticks = <<>>

NextCopy ==
  \/ getLatencyHistory
  \/ SubscriberKeeps
  \/ \E h \in Holders, m \in Mutations : HolderMutates(h, m)
  \/ CopyCanPing /\ startMonitoring(DEFAULT_PING_INTERVAL_MS)
  \/ stopMonitoring
  \/ CopyCanPing /\ \E t \in timers : TimerFires(t)
  \/ \E i \in 1..Len(ticks) : ProbeSucceeds(i)
  \/ \E i \in 1..Len(ticks) : ProbeFails(i) /\ PingNextEndpoint(i)
  \/ \E i \in 1..Len(ticks) : ProbeFails(i) /\ PingAllFailed(i)

SpecCopy == Init /\ [][NextCopy]_vars

\* ---------------------------------------------------- computeStatus on its own
StatusRtts == {Null, 0, 250, 299, 300, 301}
StatusLens == (0..MaxStatusLen) \cup {HISTORY_SIZE}

InitClassify ==
  /\ InitMonitor(<<>>, 0)
  /\ csRtt \in StatusRtts
  /\ csHistory \in {WarmHistory(n) : n \in StatusLens}
  /\ csStatus = "none"
  /\ held = [h \in Holders |-> NoArray]
  /\ InitDiagnostics

Classify ==
  /\ csStatus = "none"
  /\ csStatus' = computeStatus(csRtt, csHistory)
  /\ UNCHANGED <<csRtt, csHistory, held, diagVars>>
  /\ UNCHANGED monVars

SpecStatus == InitClassify /\ [][Classify]_vars

\* ------------------------------------------------------------------- claims
Emissions(event) == SelectSeq(log, LAMBDA e : e.kind = "emit" /\ e.event = event)
TickDone == last.op \in {"success", "allFailed"}
Ascending(history) ==
  \A i \in 1..(Len(history) - 1) : history[i].time <= history[i + 1].time

\* C1: an all-fail tick emits outageDetected iff the counter after its
\* increment is >= 3, once and carrying that count; so not on the 1st or 2nd
\* failing tick of a streak, and never in a step that is not an all-fail tick.
C1_OutageIffThreshold ==
  /\ last.op = "allFailed" =>
       /\ consecutiveFailures = last.failures0 + 1
       /\ Len(Emissions("outageDetected")) = (IF consecutiveFailures >= 3 THEN 1 ELSE 0)
       /\ \A k \in 1..Len(Emissions("outageDetected")) :
            Emissions("outageDetected")[k].data.consecutiveFailures = consecutiveFailures
       /\ streak < 3 => Emissions("outageDetected") = <<>>
       /\ streak >= 3 => Emissions("outageDetected") # <<>>
  /\ last.op # "allFailed" => Emissions("outageDetected") = <<>>

C1_Witness ==
  /\ last.op = "allFailed"
  /\ consecutiveFailures = 4
  /\ Len(Emissions("outageDetected")) = 1

\* C2 as stated: outageDetected fires at most once in a streak of all-fail ticks.
C2_OneShotPerStreak == fired <= 1

\* C2 amended: outageDetected fires on the tick that brings the counter to 3
\* and on every later all-fail tick of the streak (streak - 2 times in all); a
\* successful tick resets the counter, and it then fires again only once
\* 3 consecutive all-fail ticks have accumulated anew.
C2_FiresOnEveryTickPastThreshold ==
  /\ fired = (IF streak >= 3 THEN streak - 2 ELSE 0)
  /\ last.op = "success" => consecutiveFailures = 0
  /\ consecutiveFailures = streak

C2_Witness ==
  /\ Len(latencyHistory) >= 1
  /\ last.op = "allFailed"
  /\ streak = 4
  /\ fired = 2

\* C3: a completed tick emits exactly one latencyUpdate.  Success: counter 0,
\* one sample appended, the event carries the rtt and a copy of the history
\* with the new sample.  All failed: counter + 1, history unchanged, the event
\* carries rtt = null and the unchanged history.  No other step emits one.
C3_OneLatencyUpdatePerTick ==
  LET ups == Emissions("latencyUpdate") IN
  /\ ~TickDone => ups = <<>>
  /\ TickDone => Len(ups) = 1
  /\ last.op = "success" =>
       /\ consecutiveFailures = 0
       /\ Len(last.history0) < HISTORY_SIZE =>
            /\ Len(latencyHistory) = Len(last.history0) + 1
            /\ SubSeq(latencyHistory, 1, Len(last.history0)) = last.history0
       /\ latencyHistory[Len(latencyHistory)].rtt = last.rtt
       /\ last.rtt # Null
       /\ ups[1].data.rtt = last.rtt
       /\ ups[1].data.history = latencyHistory
  /\ last.op = "allFailed" =>
       /\ consecutiveFailures = last.failures0 + 1
       /\ latencyHistory = last.history0
       /\ ups[1].data.rtt = Null
       /\ ups[1].data.history = last.history0

C3_Witness ==
  /\ last.op = "success"
  /\ last.failures0 = 2
  /\ Len(latencyHistory) = 2
  /\ Emissions("latencyUpdate")[1].data.rtt = 300

\* C4: a tick probes the endpoints in configured order, each at most once, goes
\* on to endpoint k only after 1..k-1 failed, stops at the first success, and
\* an all-fail tick starts no tick of its own.
InOrder(probed) == \A k \in 1..Len(probed) : probed[k].ep = k
FailedBefore(probed, n) == \A k \in 1..n : ~probed[k].ok

C4_SequentialFallback ==
  /\ \A i \in 1..Len(ticks) :
       /\ InOrder(ticks[i].probed)
       /\ FailedBefore(ticks[i].probed, Len(ticks[i].probed))
       /\ ticks[i].ep = Len(ticks[i].probed) + 1
       /\ ticks[i].ep <= Len(ENDPOINTS)
  /\ last.op \in {"success", "next", "allFailed"} =>
       /\ InOrder(last.probed)
       /\ Len(last.probed) <= Len(ENDPOINTS)
       /\ FailedBefore(last.probed, Len(last.probed) - 1)
       /\ last.probed[Len(last.probed)].ok = (last.op = "success")
  /\ last.op = "allFailed" =>
       /\ Len(last.probed) = Len(ENDPOINTS)
       /\ Len(ticks) = last.inflight0 - 1
  /\ last.op = "success" => Len(ticks) = last.inflight0 - 1

C4_Witness ==
  /\ last.op = "success"
  /\ Len(last.probed) = 3
  /\ Len(ticks) = 1
  /\ ticks[1].ep = 2

\* C5: for a non-null rtt computeStatus is degraded when the window of at most
\* 30 entries holds fewer than 21, and otherwise degraded iff rtt >= 300.
C5_DegradedRule ==
  (csStatus # "none" /\ csRtt # Null) =>
    LET window == IF Len(csHistory) < 30 THEN Len(csHistory) ELSE 30 IN
    csStatus = (IF window < 21 THEN "degraded"
                ELSE IF csRtt >= 300 THEN "degraded" ELSE "connected")

C5_Witness ==
  /\ csStatus = "connected"
  /\ csRtt = 250
  /\ Len(csHistory) = 30

\* C6: computeStatus is disconnected iff the rtt is null, whatever the history;
\* 0 ms is not disconnected and the result is never unknown.
C6_DisconnectedIffNull ==
  csStatus # "none" =>
    /\ (csStatus = "disconnected") <=> (csRtt = Null)
    /\ csStatus \in {"connected", "degraded", "disconnected"}

C6_Witness ==
  /\ csRtt = 0
  /\ csStatus = "connected"

\* C7: the history never holds more than 600 entries and is in ascending time
\* order; a sample appended to 600 entries removes the oldest one and follows
\* the other 599, which keep their order.
C7_BoundedFifoHistory ==
  /\ Len(latencyHistory) <= 600
  /\ Ascending(latencyHistory)
  /\ (last.op = "success" /\ Len(last.history0) = 600) =>
       /\ Len(latencyHistory) = 600
       /\ SubSeq(latencyHistory, 1, 599) = Tail(last.history0)
       /\ latencyHistory[600].rtt = last.rtt
       /\ latencyHistory[600].time = now

C7_Witness ==
  /\ last.op = "success"
  /\ Len(last.history0) = 600
  /\ last.history0[1] # latencyHistory[1]

\* C8 as stated: right after startMonitoring the counter is 0 and the history
\* is empty.
C8_StartResetsState ==
  last.op = "startMonitoring" =>
    /\ consecutiveFailures = 0
    /\ latencyHistory = <<>>

\* C9: at most one recurring timer is active, one is active exactly when the
\* last lifecycle call was startMonitoring, it is the one intervalId names and
\* it runs at that call's interval.
C9_SingleTimer ==
  /\ Cardinality(timers) <= 1
  /\ lastCall.op = "start" =>
       /\ intervalId # Null
       /\ timers = {[id |-> intervalId, ms |-> lastCall.ms]}
  /\ lastCall.op # "start" =>
       /\ intervalId = Null
       /\ timers = {}

C9_Witness ==
  /\ lastCall.op = "start"
  /\ lastCall.prev = "start"
  /\ lastCall.ms = 5000
  /\ last.op = "timer"
  /\ Cardinality(timers) = 1

\* C10 as stated: at most one poll tick is in progress, hence at most one poll
\* probe request outstanding.
C10_OneTickInFlight == Len(ticks) <= 1

\* C11: startMonitoring cancels the timer that is set (if one is), then emits
\* statusChange(unknown, rtt null, empty history), then starts one tick whose
\* first probe is issued within the call, then schedules the recurring timer.
Positions(kind) == {k \in 1..Len(log) : log[k].kind = kind}
Before(A, B) == \A a \in A, b \in B : a < b

C11_StartOrder ==
  last.op = "startMonitoring" =>
    /\ Cardinality(Positions("clearInterval")) = (IF lastCall.prev = "start" THEN 1 ELSE 0)
    /\ Cardinality(Positions("emit")) = 1
    /\ Cardinality(Positions("fetch")) = 1
    /\ Cardinality(Positions("setInterval")) = 1
    /\ \A k \in Positions("emit") :
         /\ log[k].event = "statusChange"
         /\ log[k].data = [status |-> "unknown", rtt |-> Null, history |-> <<>>]
    /\ \A k \in Positions("fetch") : log[k].data.ep = 1
    /\ \A k \in Positions("setInterval") : log[k].data.ms = lastCall.ms
    /\ Before(Positions("clearInterval"), Positions("emit"))
    /\ Before(Positions("emit"), Positions("fetch"))
    /\ Before(Positions("fetch"), Positions("setInterval"))
    /\ Len(ticks) = last.inflight0 + 1
    /\ ticks[Len(ticks)] = [ep |-> 1, probed |-> <<>>]

C11_Witness ==
  /\ last.op = "startMonitoring"
  /\ lastCall.prev = "start"
  /\ Positions("clearInterval") = {1}
  /\ Len(log) = 4

\* C12: while monitoring is started, the latencyUpdate of a completed tick is
\* followed in the same step by exactly one statusChange, with the status
\* computeStatus gives for the event's rtt and history and with that same rtt
\* and history; also after startMonitoring was called twice in a row.
C12_StatusFollowsLatency ==
  (lastCall.op = "start" /\ TickDone) =>
    LET ups == {k \in Positions("emit") : log[k].event = "latencyUpdate"}
        sts == {k \in Positions("emit") : log[k].event = "statusChange"}
    IN /\ Cardinality(ups) = 1
       /\ Cardinality(sts) = 1
       /\ Before(ups, sts)
       /\ \A u \in ups, k \in sts :
            /\ log[k].data.rtt = log[u].data.rtt
            /\ log[k].data.history = log[u].data.history
            /\ log[k].data.status = computeStatus(log[u].data.rtt, log[u].data.history)
            /\ log[k].data.status # "unknown"

C12_Witness ==
  /\ lastCall.op = "start"
  /\ lastCall.prev = "start"
  /\ last.op = "success"
  /\ Emissions("statusChange")[1].data.status = "connected"
  /\ Len(callbacks.latencyUpdate) = 1

\* C13: stopMonitoring cancels the timer and unregisters the internal listener
\* and leaves the history, the counter and the ticks in flight as they were;
\* until the next startMonitoring no timer starts a tick and no statusChange
\* is emitted.
C13_StopFrame ==
  /\ last.op = "stopMonitoring" =>
       /\ consecutiveFailures = last.failures0
       /\ latencyHistory = last.history0
       /\ Len(ticks) = last.inflight0
       /\ timers = {}
       /\ intervalId = Null
       /\ ~Includes(callbacks.latencyUpdate, "onLatencyUpdate")
       /\ Positions("emit") = {}
       /\ Positions("fetch") = {}
  /\ lastCall.op = "stop" =>
       /\ last.op # "timer"
       /\ Emissions("statusChange") = <<>>

C13_Witness ==
  /\ lastCall.op = "stop"
  /\ last.op = "allFailed"
  /\ Len(Emissions("latencyUpdate")) = 1
  /\ Len(latencyHistory) = 1

\* C19 as stated: a tick that completes between stopMonitoring and the next
\* startMonitoring changes neither the history nor the counter and emits or
\* delivers no event.
C19_StaleTickIgnored ==
  (lastCall.op = "stop" /\ TickDone) =>
    /\ latencyHistory = last.history0
    /\ consecutiveFailures = last.failures0
    /\ Positions("emit") = {}
    /\ Positions("call") = {}

\* C20: every tick that starts completes.  Each probe ends as ok with an
\* integer rtt >= 0 or as a failure without rtt, never by throwing; a tick
\* makes at most one probe per endpoint and ends by emitting its latencyUpdate.
ProbeEndsStructured ==
  \A raw \in FetchOutcomes :
    /\ ~pingOne(raw).threw
    /\ pingOne(raw).ok => (pingOne(raw).rtt \in Nat /\ raw.kind = "response")
    /\ ~pingOne(raw).ok => (pingOne(raw).rtt = Null /\ raw.kind # "response")

TickEndsWithLatencyUpdate ==
  /\ last.op = "success" => last.rtt \in Nat
  /\ last.op \in {"next", "allFailed"} => last.rtt = Null
  /\ TickDone =>
       /\ Len(last.probed) <= Len(ENDPOINTS)
       /\ Len(Emissions("latencyUpdate")) = 1
       /\ \A u \in Positions("emit"), k \in Positions("emit") :
            (log[u].event = "latencyUpdate" /\ log[k].event = "outageDetected") => k < u

C20_TicksComplete ==
  /\ [](ProbeEndsStructured /\ TickEndsWithLatencyUpdate)
  /\ \A n \in 1..LiveTicks : (tickCount >= n) ~> (tickCount - Len(ticks) >= n)

C20_Witness ==
  /\ last.op = "allFailed"
  /\ Len(last.probed) = 3
  /\ tickCount = 2
  /\ ticks = <<>>

\* C18: an emitted event is delivered to the callbacks subscribed to its kind,
\* once per registration, in registration order, with the emitted data; on
\* appends one registration; off removes exactly one registration of fn and
\* leaves the others in order; off of a callback that is not registered, and
\* on/off with a name the bus does not know, change nothing.
CallsOf(event) == SelectSeq(log, LAMBDA e : e.kind = "call" /\ e.event = event)
CountOf(fns, fn) == Cardinality({k \in 1..Len(fns) : fns[k] = fn})

C18_BusDelivery ==
  /\ \A e \in EventNames :
       /\ Len(Emissions(e)) <= 1
       /\ Emissions(e) = <<>> => CallsOf(e) = <<>>
       /\ Emissions(e) # <<>> =>
            /\ Len(CallsOf(e)) = Len(last.callbacks0[e])
            /\ \A k \in 1..Len(CallsOf(e)) :
                 /\ CallsOf(e)[k].fn = last.callbacks0[e][k]
                 /\ CallsOf(e)[k].data = Emissions(e)[1].data
  /\ last.op = "on" =>
       callbacks = (IF last.event \in EventNames
                    THEN [last.callbacks0 EXCEPT ![last.event] = Append(@, last.fn)]
                    ELSE last.callbacks0)
  /\ last.op = "off" =>
       IF last.event \in EventNames /\ CountOf(last.callbacks0[last.event], last.fn) > 0
       THEN /\ \E k \in 1..Len(last.callbacks0[last.event]) :
                 /\ last.callbacks0[last.event][k] = last.fn
                 /\ callbacks[last.event] = RemoveAt(last.callbacks0[last.event], k)
            /\ CountOf(callbacks[last.event], last.fn)
                 = CountOf(last.callbacks0[last.event], last.fn) - 1
            /\ \A e \in EventNames \ {last.event} : callbacks[e] = last.callbacks0[e]
       ELSE callbacks = last.callbacks0

C18_Witness ==
  /\ last.op = "allFailed"
  /\ CallsOf("outageDetected") = <<Called("g", "outageDetected", [consecutiveFailures |-> 3])>>
  /\ Len(CallsOf("latencyUpdate")) = 2
  /\ CallsOf("latencyUpdate")[1].fn = "onLatencyUpdate"
  /\ CallsOf("latencyUpdate")[2].fn = "f"

C18_OffWitness ==
  /\ last.op = "off"
  /\ last.callbacks0.statusChange = <<"f", "f">>
  /\ callbacks.statusChange = <<"f">>

\* C14: an array returned by getLatencyHistory, and the history carried by a
\* latencyUpdate, is a copy: what its holder does to it leaves the internal
\* history as it was, every getLatencyHistory returns the internal history,
\* and an array its holder has not touched keeps the elements it was handed
\* over with, whatever later ticks and other holders do.
C14_DefensiveCopies ==
  /\ last.op = "mutate" => latencyHistory = last.history0
  /\ last.op = "get" => Deref(held["caller"].ref) = latencyHistory
  /\ \A h \in Holders : ~held[h].touched => Deref(held[h].ref) = held[h].at

C14_Witness ==
  /\ held["subscriber"].held
  /\ ~held["subscriber"].touched
  /\ held["subscriber"].at # latencyHistory
  /\ held["caller"].held
  /\ held["caller"].touched
  /\ Deref(held["caller"].ref) # held["caller"].at
  /\ held["caller"].at # <<>>

\* C15: runDiagnostics never rejects: whatever each of the four probes comes
\* to (a response, a failure, the timeout's abort, a throw), the four are
\* issued together, the promise resolves only once all four have settled,
\* it resolves to a DiagnosticsResult, and a running call does resolve.
AllProbes(state) == \A i \in 1..Len(DIAG_ENDPOINTS) : diagProbes[i].state = state
IsDiagnosticsResult(r) ==
  /\ r.dnsOk \in BOOLEAN
  /\ r.dnsOk <=> (r.endpointsReached # <<>>)
  /\ \A k \in 1..Len(r.endpointsReached) :
       \E i \in 1..Len(DIAG_ENDPOINTS) :
         DIAG_ENDPOINTS[i].name = r.endpointsReached[k] /\ diagProbes[i].ok
  /\ Len(r.endpointsReached) = Cardinality({i \in 1..Len(DIAG_ENDPOINTS) : diagProbes[i].ok})
  /\ r.latencyBreakdown \in ResourceTimings
  /\ \A k \in 1..Len(r.suggestions) :
       r.suggestions[k] \in {TIP_MODEM, TIP_DEVICES, TIP_ISP, TIP_SOME, TIP_TRY,
                             TIP_DNS, TIP_CONNECT}

C15_NeverRejects ==
  /\ [](diagState # "rejected")
  /\ [](\A i \in 1..Len(DIAG_ENDPOINTS) : diagProbes[i].state # "rejected")
  /\ [](diagState = "running" =>
          \A i \in 1..Len(DIAG_ENDPOINTS) : diagProbes[i].state \in {"pending", "fulfilled"})
  /\ [](diagState = "resolved" => AllProbes("fulfilled") /\ IsDiagnosticsResult(diagResult))
  /\ (diagState = "running") ~> (diagState = "resolved")

C15_Witness ==
  /\ diagState = "resolved"
  /\ diagProbes[1].cause = "timeoutAbort"
  /\ diagProbes[2].cause = "throws"
  /\ diagProbes[3].cause = "response"
  /\ diagProbes[4].cause = "error"
  /\ diagResult.endpointsReached = <<"ipify">>

\* C16: the reachability tips follow the number of endpoints reached: none
\* reached gives the three generic tips and no 'specific service' tip; one
\* to three reached gives the two 'specific service' tips and no generic
\* tip; all four reached gives neither.
Suggested == {diagResult.suggestions[k] : k \in 1..Len(diagResult.suggestions)}
ReachedCount == Cardinality({i \in 1..Len(DIAG_ENDPOINTS) : diagProbes[i].ok})
GenericTips == {TIP_MODEM, TIP_DEVICES, TIP_ISP}
SpecificTips == {TIP_SOME, TIP_TRY}

C16_ReachabilityTips ==
  diagState = "resolved" =>
    /\ ReachedCount = 0 => GenericTips \subseteq Suggested /\ SpecificTips \cap Suggested = {}
    /\ ReachedCount \in 1..3 =>
         SpecificTips \subseteq Suggested /\ GenericTips \cap Suggested = {}
    /\ ReachedCount = 4 => (GenericTips \cup SpecificTips) \cap Suggested = {}

C16_Witness ==
  /\ diagState = "resolved"
  /\ ReachedCount = 3
  /\ ~diagProbes[4].ok
  /\ diagResult.suggestions = <<TIP_SOME, TIP_TRY, TIP_CONNECT>>

\* C17: the timing tips follow the breakdown of the first non-beacon endpoint,
\* in configured order, that has one (none: no breakdown): the DNS tip is there
\* iff it has dns >= 100, the firewall/VPN tip iff it has connect >= 200,
\* whatever the number of endpoints reached; no suggestion occurs twice; with
\* all four reached and no slow phase the list is empty.
FirstTimed ==
  IF diagEntries[1] # NoTiming THEN diagEntries[1]
  ELSE IF diagEntries[2] # NoTiming THEN diagEntries[2]
       ELSE diagEntries[3]

C17_TimingTips ==
  diagState = "resolved" =>
    LET b == diagResult.latencyBreakdown IN
    /\ b = FirstTimed
    /\ TIP_DNS \in Suggested <=> (b # NoTiming /\ b.dns >= 100)
    /\ TIP_CONNECT \in Suggested <=> (b # NoTiming /\ b.connect >= 200)
    /\ Cardinality(Suggested) = Len(diagResult.suggestions)
    /\ (ReachedCount = 4 /\ (b = NoTiming \/ (b.dns < 100 /\ b.connect < 200)))
         => diagResult.suggestions = <<>>

C17_Witness ==
  /\ diagState = "resolved"
  /\ diagEntries[1] = NoTiming
  /\ diagEntries[2] = [dns |-> 100, connect |-> 199]
  /\ diagEntries[4] # NoTiming
  /\ ReachedCount = 0
  /\ diagResult.latencyBreakdown = diagEntries[2]
  /\ diagResult.suggestions = <<TIP_MODEM, TIP_DEVICES, TIP_ISP, TIP_DNS>>

C17_EmptyWitness ==
  /\ diagState = "resolved"
  /\ ReachedCount = 4
  /\ diagEntries[1] = [dns |-> 99, connect |-> 199]
  /\ diagResult.suggestions = <<>>

\* C21: no step shortens the latency history: startMonitoring, stopMonitoring
\* and an all-fail tick leave it as it is and a successful tick below capacity
\* adds one entry; so once 21 samples are recorded, the status derived from
\* every later successful tick is connected iff rtt < 300 and degraded
\* otherwise, also across stops and restarts.
C21_HistoryNeverShrinks ==
  /\ [][Len(latencyHistory') >= Len(latencyHistory)]_vars
  /\ [](last.op \in {"startMonitoring", "stopMonitoring", "allFailed"}
          => latencyHistory = last.history0)
  /\ []((last.op = "success" /\ Len(last.history0) < 600)
          => Len(latencyHistory) = Len(last.history0) + 1)
  /\ []((last.op = "success" /\ Len(last.history0) >= 21) =>
          \A k \in 1..Len(Emissions("statusChange")) :
            /\ Emissions("statusChange")[k].data.status
                 = (IF last.rtt < 300 THEN "connected" ELSE "degraded")
            /\ Len(Emissions("statusChange")[k].data.history) >= 21)

C21_Witness ==
  /\ last.op = "success"
  /\ Len(last.history0) = 21
  /\ lastCall.op = "start"
  /\ lastCall.prev = "stop"
  /\ last.rtt = 0
  /\ Len(Emissions("statusChange")) = 1
  /\ Emissions("statusChange")[1].data.status = "connected"

\* C22: an all-fail tick that leaves the counter at 3 or more emits
\* outageDetected, then its latencyUpdate (rtt null), then, while the
\* internal listener is registered, the statusChange(disconnected) derived
\* from it; the step holds these events of this one tick and no others.
EmitsOf(event) == {k \in Positions("emit") : log[k].event = event}

C22_OutageBeforeLatency ==
  (last.op = "allFailed" /\ consecutiveFailures >= 3) =>
    /\ Cardinality(EmitsOf("outageDetected")) = 1
    /\ Cardinality(EmitsOf("latencyUpdate")) = 1
    /\ Cardinality(EmitsOf("statusChange"))
         = (IF Includes(callbacks.latencyUpdate, "onLatencyUpdate") THEN 1 ELSE 0)
    /\ Before(EmitsOf("outageDetected"), EmitsOf("latencyUpdate"))
    /\ Before(EmitsOf("latencyUpdate"), EmitsOf("statusChange"))
    /\ \A k \in EmitsOf("outageDetected") :
         log[k].data.consecutiveFailures = consecutiveFailures
    /\ \A k \in EmitsOf("latencyUpdate") :
         log[k].data = [rtt |-> Null, history |-> latencyHistory, timing |-> Null]
    /\ \A k \in EmitsOf("statusChange") :
         log[k].data = [status |-> "disconnected", rtt |-> Null,
                        history |-> latencyHistory]
    /\ Positions("emit") = EmitsOf("outageDetected") \cup EmitsOf("latencyUpdate")
                             \cup EmitsOf("statusChange")
    /\ Len(ticks) = last.inflight0 - 1

C22_Witness ==
  /\ last.op = "allFailed"
  /\ consecutiveFailures = 3
  /\ last.inflight0 = 2
  /\ Cardinality(EmitsOf("statusChange")) = 1
  /\ Len(latencyHistory) > 0

====
